---- MODULE Spec2Model ----
(***************************************************************************)
(* A model of src/src/App.jsx: the score generator and normaliser          *)
(* (normalizeScores, mockPredictEmotion) and the App component's state     *)
(* with its handlers (handleFile, analyzeAudio, startRecording,            *)
(* stopRecording, recorder.onstop, the revokeObjectURL effect).            *)
(*                                                                         *)
(* Scores are fixed-point numbers in thousandths (0.32 is 320); a          *)
(* confidence is an integer percentage.  React re-renders, and runs the    *)
(* effect cleanup, after every handler before the next event is handled.   *)
(***************************************************************************)
EXTENDS Integers, Sequences, FiniteSets, TLC

\* ------------------------------------------------------------- bounds
\* createObjectURL calls in one run
MaxClips == 2
\* streams asked of getUserMedia and not refused, in one run
MaxMicRequests == 2
\* largest raw score (an integer weight) fed to the normaliser on its own
MaxScore == 6

\* ------------------------------------------------- the pure functions
Labels == <<"Calm", "Stressed", "Excited", "Neutral">>

RECURSIVE SumScores(_)
SumScores(scores) ==
  IF scores = <<>> THEN 0 ELSE Head(scores).score + SumScores(Tail(scores))

\* Math.round of the non-negative quotient n / d: floor(n / d + 1/2)
MathRound(n, d) == (2 * n + d) \div (2 * d)

\* line 12: reduce(...) || 1
Total(scores) == IF SumScores(scores) = 0 THEN 1 ELSE SumScores(scores)

\* normalizeScores truncating instead of rounding
normalizeScoresFloor(scores) ==
  [i \in 1..Len(scores) |->
     [label      |-> scores[i].label,
      score      |-> scores[i].score,
      confidence |-> (scores[i].score * 100) \div Total(scores)]]

normalizeScores(scores) ==
  [i \in 1..Len(scores) |->
     [label      |-> scores[i].label,
      score      |-> scores[i].score,
      confidence |-> MathRound(scores[i].score * 100, Total(scores))]]

\* the comparator with its operands swapped
compareAscending(a, b) == a.confidence - b.confidence

\* the comparator of line 36: positive when b must come before a
compare(a, b) == b.confidence - a.confidence

\* Array.prototype.sort with that comparator: a stable sort.  x goes in
\* front of the first element the comparator puts strictly after it.
RECURSIVE Insert(_, _)
Insert(x, sorted) ==
  IF sorted = <<>> THEN <<x>>
  ELSE IF compare(Head(sorted), x) > 0 THEN <<x>> \o sorted
  ELSE <<Head(sorted)>> \o Insert(x, Tail(sorted))

RECURSIVE sort(_)
sort(items) ==
  IF items = <<>> THEN <<>>
  ELSE Insert(items[Len(items)], sort(SubSeq(items, 1, Len(items) - 1)))

\* line 22: (fileLike?.name || 'mic').length; NoName is a missing or empty name
NoName == ""
seedOf(name) == IF name = NoName THEN Len("mic") ELSE Len(name)

\* the base scores with the offsets of Calm and Excited exchanged
baseScoresOffsetsSwapped(seed) ==
  << [label |-> "Calm",     score |-> 320 + ((seed + 2) % 3) * 50],
     [label |-> "Stressed", score |-> 280 + ((seed + 1) % 3) * 40],
     [label |-> "Excited",  score |-> 250 + (seed % 3) * 30],
     [label |-> "Neutral",  score |-> 150] >>

\* lines 23-28
baseScores(seed) ==
  << [label |-> "Calm",     score |-> 320 + (seed % 3) * 50],
     [label |-> "Stressed", score |-> 280 + ((seed + 1) % 3) * 40],
     [label |-> "Excited",  score |-> 250 + ((seed + 2) % 3) * 30],
     [label |-> "Neutral",  score |-> 150] >>

Max2(a, b) == IF a >= b THEN a ELSE b

\* lines 31-34; jitter[i] is (Math.random() - 0.5) * 0.12 for item i
jittered(base, jitter) ==
  [i \in 1..Len(base) |->
     [label |-> base[i].label, score |-> Max2(50, base[i].score + jitter[i])]]

\* the value mockPredictEmotion resolves with
mockPredictEmotion(name, jitter) ==
  sort(normalizeScores(jittered(baseScores(seedOf(name)), jitter)))

\* (Math.random() - 0.5) * 0.12 lies in [-0.060, 0.060); the draws tried,
\* one value per label
Jitters == { <<0, 0, 0, 0>>, <<-60, 59, 59, -60>> }

\* ------------------------------------------------------ the inputs
\* what the file input or a drop hands to handleFile: (name, MIME type)
AudioFiles ==
  { [name |-> "clip5.wav", type |-> "audio/wav"],
    [name |-> "memo.mp3",  type |-> "audio/mpeg"] }
OtherFiles ==
  { [name |-> "photo.png",  type |-> "image/png"],
    [name |-> "movie.mp4",  type |-> "video/mp4"],
    [name |-> "notes",      type |-> ""] }
Files == AudioFiles \cup OtherFiles

\* line 118: the File built by recorder.onstop
MicrophoneFile == [name |-> "microphone.webm", type |-> "audio/webm"]

UploadError  == "Please upload an audio file (wav, m4a, mp3)."
AnalyzeError == "Could not analyze. Please try again."
MicError     == "Microphone permission is needed to record."

\* the check reduced to "the file has a type"
IsAudioAnyType(type) == type # ""

\* line 92: file?.type?.startsWith('audio')
IsAudio(type) == Len(type) >= Len("audio") /\ SubSeq(type, 1, Len("audio")) = "audio"

\* ------------------------------------------------------- the state
VARIABLES
  mounted,          \* the component is mounted
  audioUrl,         \* useState(''): 0 is '', n is the n-th object URL
  audioName,        \* useState('')
  results,          \* useState([])
  status,           \* useState('idle')
  error,            \* useState('')
  isRecording,      \* useState(false)
  mediaRecorderRef, \* useRef(null): 0 is null, n is the n-th recorder
  urls,             \* every object URL created: "live" or "revoked"
  streams,          \* every stream getUserMedia gave: "live" or "stopped"
  recorders,        \* every MediaRecorder started: its stream and state
  micPending,       \* startRecording calls awaiting getUserMedia
  pending,          \* mockPredictEmotion calls awaiting their timer, oldest first
  settled,          \* the mockPredictEmotion call that settled last
  clipIn,           \* the generator on its own: the clip name given
  baseOut,          \*   and its pre-jitter base scores
  rawIn,            \* the normaliser on its own: the raw scores given
  normOut,          \*   normalizeScores of them
  rankedOut         \*   and the sorted list

appVars == <<mounted, audioUrl, audioName, results, status, error, isRecording,
             mediaRecorderRef, urls, streams, recorders, micPending,
             pending, settled>>
pureVars == <<clipIn, baseOut, rawIn, normOut, rankedOut>>
vars == <<appVars, pureVars>>

NoCall == [clip |-> 0, epoch |-> 0, outcome |-> "none"]
Settled(call, outcome) ==
  [clip |-> call.clip, epoch |-> call.epoch, outcome |-> outcome]

AppInit ==
  /\ mounted = TRUE
  /\ audioUrl = 0
  /\ audioName = ""
  /\ results = <<>>
  /\ status = "idle"
  /\ error = ""
  /\ isRecording = FALSE
  /\ mediaRecorderRef = 0
  /\ urls = <<>>
  /\ streams = <<>>
  /\ recorders = <<>>
  /\ micPending = 0
  /\ pending = <<>>
  /\ settled = NoCall

PureIdle ==
  /\ clipIn = NoName
  /\ baseOut = <<>>
  /\ rawIn = <<>>
  /\ normOut = <<>>
  /\ rankedOut = <<>>

Init == AppInit /\ PureIdle

\* a state setter: React drops the update of an unmounted component
SetState(current, value) == IF mounted THEN value ELSE current

\* URL.revokeObjectURL(u); revoking '' does nothing
revokeObjectURL(u, table) ==
  IF u = 0 THEN table ELSE [table EXCEPT ![u] = "revoked"]

\* URL.createObjectURL, then setAudioUrl(url): the re-render runs the cleanup
\* of the effect of line 75, which revokes the URL it replaces
createAndSetAudioUrl ==
  /\ urls' = IF mounted
               THEN revokeObjectURL(audioUrl, Append(urls, "live"))
               ELSE Append(urls, "live")
  /\ audioUrl' = SetState(audioUrl, Len(urls) + 1)

\* analyzeAudio calling the generator a second time for the same file
analyzeAudioTwice(file, clip) ==
  /\ status' = SetState(status, "loading")
  /\ error' = SetState(error, "")
  /\ pending' = pending \o
       << [clip |-> clip, name |-> file.name, epoch |-> Len(recorders)],
          [clip |-> clip, name |-> file.name, epoch |-> Len(recorders)] >>

\* lines 77-81: up to the await.  clip is the object URL made for the file
analyzeAudio(file, clip) ==
  /\ status' = SetState(status, "loading")
  /\ error' = SetState(error, "")
  /\ pending' = Append(pending, [clip |-> clip, name |-> file.name,
                                 epoch |-> Len(recorders)])

\* lines 91-100, called by the file input's onChange and by handleDrop
handleFile(file) ==
  /\ mounted
  /\ IF ~IsAudio(file.type)
       THEN /\ error' = UploadError
            /\ UNCHANGED <<mounted, audioUrl, audioName, results, status,
                           isRecording, mediaRecorderRef, urls, streams,
                           recorders, micPending, pending, settled>>
       ELSE /\ Len(urls) < MaxClips
            /\ createAndSetAudioUrl
            /\ audioName' = file.name
            /\ analyzeAudio(file, Len(urls) + 1)
            /\ UNCHANGED <<mounted, results, isRecording, mediaRecorderRef,
                           streams, recorders, micPending, settled>>
  /\ UNCHANGED pureVars

HandleFile == \E file \in Files : handleFile(file)

\* the resolution without setStatus('done')
analyzeAudioThenNoDone(jitter) ==
  /\ pending # <<>>
  /\ results' = SetState(results, mockPredictEmotion(Head(pending).name, jitter))
  /\ pending' = Tail(pending)
  /\ settled' = Settled(Head(pending), "resolved")
  /\ UNCHANGED <<mounted, audioUrl, audioName, status, error, isRecording,
                 mediaRecorderRef, urls, streams, recorders, micPending>>
  /\ UNCHANGED pureVars

\* lines 81-83: the timer of the oldest call fires (equal delays fire in the
\* order they were set) and the call resolves
analyzeAudioThen(jitter) ==
  /\ pending # <<>>
  /\ results' = SetState(results, mockPredictEmotion(Head(pending).name, jitter))
  /\ status' = SetState(status, "done")
  /\ pending' = Tail(pending)
  /\ settled' = Settled(Head(pending), "resolved")
  /\ UNCHANGED <<mounted, audioUrl, audioName, error, isRecording,
                 mediaRecorderRef, urls, streams, recorders, micPending>>
  /\ UNCHANGED pureVars

AnalysisResolve == \E jitter \in Jitters : analyzeAudioThen(jitter)

\* lines 84-88: the catch block, were the awaited call to reject
analyzeAudioCatch ==
  /\ pending # <<>>
  /\ error' = SetState(error, AnalyzeError)
  /\ status' = SetState(status, "idle")
  /\ pending' = Tail(pending)
  /\ settled' = Settled(Head(pending), "rejected")
  /\ UNCHANGED <<mounted, audioUrl, audioName, results, isRecording,
                 mediaRecorderRef, urls, streams, recorders, micPending>>
  /\ UNCHANGED pureVars

AnalysisReject == analyzeAudioCatch

\* lines 108-110: the button shows "Record" and is clicked; getUserMedia is called
startRecording ==
  /\ mounted
  /\ ~isRecording
  /\ micPending + Len(streams) < MaxMicRequests
  /\ micPending' = micPending + 1
  /\ UNCHANGED <<mounted, audioUrl, audioName, results, status, error, isRecording,
                 mediaRecorderRef, urls, streams, recorders, pending, settled>>
  /\ UNCHANGED pureVars

\* lines 129-132 after getUserMedia rejects (or is missing)
startRecordingDenied ==
  /\ micPending > 0
  /\ micPending' = micPending - 1
  /\ error' = SetState(error, MicError)
  /\ UNCHANGED <<mounted, audioUrl, audioName, results, status, isRecording,
                 mediaRecorderRef, urls, streams, recorders, pending, settled>>
  /\ UNCHANGED pureVars

\* the start without setResults([])
startRecordingResumeKeepsResults ==
  /\ micPending > 0
  /\ micPending' = micPending - 1
  /\ streams' = Append(streams, "live")
  /\ recorders' = Append(recorders, [stream |-> Len(streams) + 1, state |-> "recording"])
  /\ mediaRecorderRef' = Len(recorders) + 1
  /\ isRecording' = SetState(isRecording, TRUE)
  /\ status' = SetState(status, "idle")
  /\ UNCHANGED <<mounted, audioUrl, audioName, results, error, urls,
                 pending, settled>>
  /\ UNCHANGED pureVars

\* the start without setStatus('idle')
startRecordingResumeKeepsStatus ==
  /\ micPending > 0
  /\ micPending' = micPending - 1
  /\ streams' = Append(streams, "live")
  /\ recorders' = Append(recorders, [stream |-> Len(streams) + 1, state |-> "recording"])
  /\ mediaRecorderRef' = Len(recorders) + 1
  /\ isRecording' = SetState(isRecording, TRUE)
  /\ results' = SetState(results, <<>>)
  /\ UNCHANGED <<mounted, audioUrl, audioName, status, error, urls,
                 pending, settled>>
  /\ UNCHANGED pureVars

\* lines 110-128: getUserMedia resolves with a stream and the recorder starts
startRecordingResume ==
  /\ micPending > 0
  /\ micPending' = micPending - 1
  /\ streams' = Append(streams, "live")
  /\ recorders' = Append(recorders, [stream |-> Len(streams) + 1, state |-> "recording"])
  /\ mediaRecorderRef' = Len(recorders) + 1
  /\ isRecording' = SetState(isRecording, TRUE)
  /\ status' = SetState(status, "idle")
  /\ results' = SetState(results, <<>>)
  /\ UNCHANGED <<mounted, audioUrl, audioName, error, urls, pending, settled>>
  /\ UNCHANGED pureVars

\* lines 110-111, 129-132: getUserMedia resolves with a stream and
\* new MediaRecorder(stream) (or recorder.start()) throws
startRecordingThrows ==
  /\ micPending > 0
  /\ micPending' = micPending - 1
  /\ streams' = Append(streams, "live")
  /\ error' = SetState(error, MicError)
  /\ UNCHANGED <<mounted, audioUrl, audioName, results, status, isRecording,
                 mediaRecorderRef, urls, recorders, pending, settled>>
  /\ UNCHANGED pureVars

\* MediaRecorder.stop(): the recorder goes inactive and its stop event is queued
recorderStop(r, table) ==
  IF r # 0 /\ table[r].state = "recording"
    THEN [table EXCEPT ![r].state = "stopQueued"]
    ELSE table

\* lines 135-139: the button shows "Stop recording" and is clicked
stopRecording ==
  /\ mounted
  /\ isRecording
  /\ recorders' = recorderStop(mediaRecorderRef, recorders)
  /\ streams' = IF mediaRecorderRef = 0 THEN streams
                ELSE [streams EXCEPT ![recorders[mediaRecorderRef].stream] = "stopped"]
  /\ isRecording' = FALSE
  /\ UNCHANGED <<mounted, audioUrl, audioName, results, status, error,
                 mediaRecorderRef, urls, micPending, pending, settled>>
  /\ UNCHANGED pureVars

\* lines 116-123: the stop event of recorder r is delivered
onstop(r) ==
  /\ recorders[r].state = "stopQueued"
  /\ Len(urls) < MaxClips
  /\ recorders' = [recorders EXCEPT ![r].state = "inactive"]
  /\ createAndSetAudioUrl
  /\ audioName' = SetState(audioName, "Live recording")
  /\ analyzeAudio(MicrophoneFile, Len(urls) + 1)
  /\ UNCHANGED <<mounted, results, isRecording, mediaRecorderRef, streams,
                 micPending, settled>>
  /\ UNCHANGED pureVars

RecorderOnStop == \E r \in 1..Len(recorders) : onstop(r)

\* the component is torn down: the cleanup of the effect of line 75 runs
unmount ==
  /\ mounted
  /\ mounted' = FALSE
  /\ urls' = revokeObjectURL(audioUrl, urls)
  /\ UNCHANGED <<audioUrl, audioName, results, status, error, isRecording,
                 mediaRecorderRef, streams, recorders, micPending,
                 pending, settled>>
  /\ UNCHANGED pureVars

\* the mounted component with the generator as written (it never rejects)
Next ==
  \/ HandleFile
  \/ AnalysisResolve
  \/ startRecording
  \/ startRecordingDenied
  \/ startRecordingResume
  \/ startRecordingThrows
  \/ stopRecording
  \/ RecorderOnStop

Spec == Init /\ [][Next]_vars

\* the same with a generator that may reject, and the timers eventually
\* firing: the oldest call in flight settles (line 20, setTimeout)
TimerFires == pending # <<>> /\ pending' = Tail(pending)
NextRejecting == Next \/ AnalysisReject
LiveSpec == Init /\ [][NextRejecting]_vars /\ WF_pending(TimerFires)

\* the component's whole life, teardown included
NextTeardown == Next \/ unmount
TeardownSpec == Init /\ [][NextTeardown]_vars

\* ------------------------------------- the pure functions on their own
ClipNames == {"clip5.wav", "voice.m4a", "cry.wav", "memo.mp3", NoName}

RawScoreSets ==
  { [i \in 1..4 |-> [label |-> Labels[i], score |-> w[i]]] :
      w \in [1..4 -> 0..MaxScore] }

PureInit ==
  /\ AppInit
  /\ clipIn \in ClipNames
  /\ rawIn \in RawScoreSets
  /\ baseOut = <<>>
  /\ normOut = <<>>
  /\ rankedOut = <<>>

Generate ==
  /\ baseOut = <<>>
  /\ baseOut' = baseScores(seedOf(clipIn))
  /\ UNCHANGED <<appVars, clipIn, rawIn, normOut, rankedOut>>

Normalize ==
  /\ normOut = <<>>
  /\ normOut' = normalizeScores(rawIn)
  /\ UNCHANGED <<appVars, clipIn, rawIn, baseOut, rankedOut>>

Rank ==
  /\ normOut # <<>>
  /\ rankedOut = <<>>
  /\ rankedOut' = sort(normOut)
  /\ UNCHANGED <<appVars, clipIn, rawIn, baseOut, normOut>>

PureNext == Generate \/ Normalize \/ Rank
PureSpec == PureInit /\ [][PureNext]_vars

\* ------------------------------------------------------- the claims
InFlight == { pending[i].clip : i \in 1..Len(pending) }

\* C1: every analyzeAudio call sets status to 'loading' and clears the error;
\* when its call settles, a resolution stores the prediction in results and
\* sets status to 'done', a rejection sets the error to 'Could not analyze.
\* Please try again.' and status to 'idle'; with the timers firing, every
\* call settles and status never stays 'loading' forever.
AnalysisAlwaysCompletes ==
  /\ [][Len(pending') > Len(pending) => status' = "loading" /\ error' = ""]_vars
  /\ [][Len(pending') < Len(pending) =>
          \/ /\ settled'.outcome = "resolved"
             /\ status' = "done"
             /\ \E jitter \in Jitters :
                  results' = mockPredictEmotion(Head(pending).name, jitter)
          \/ /\ settled'.outcome = "rejected"
             /\ status' = "idle"
             /\ error' = AnalyzeError
             /\ results' = results]_vars
  /\ \A clip \in 1..MaxClips : (clip \in InFlight) ~> (clip \notin InFlight)
  /\ (status = "loading") ~> (status # "loading")

\* one call resolved and stored its results, a later one rejected
C1Witness ==
  /\ settled.outcome = "rejected"
  /\ status = "idle"
  /\ error = AnalyzeError
  /\ results # <<>>

\* C2: handleFile with a file whose MIME type does not begin with 'audio'
\* starts no analysis, creates no playback URL, leaves audioUrl, audioName,
\* status and results as they were (idle and empty stay idle and empty) and
\* sets the error to 'Please upload an audio file (wav, m4a, mp3).'.
NonAudioIsRefused ==
  [][\A file \in OtherFiles :
       handleFile(file) =>
         /\ error' = "Please upload an audio file (wav, m4a, mp3)."
         /\ pending' = pending
         /\ urls' = urls
         /\ audioUrl' = audioUrl
         /\ audioName' = audioName
         /\ status' = status
         /\ results' = results]_vars

\* a non-audio file was the first thing uploaded
C2Witness ==
  /\ error = UploadError
  /\ status = "idle"
  /\ results = <<>>
  /\ pending = <<>>
  /\ urls = <<>>
  /\ audioName = ""

\* C3: a recording that starts resets results to empty and status to 'idle'
\* and leaves every call in flight as it is; a call that resolves afterwards,
\* isRecording or not, sets results to its prediction and status to 'done'.
RecordingStartKeepsAnalysis ==
  /\ [][Len(recorders') > Len(recorders) =>
          /\ results' = <<>>
          /\ status' = "idle"
          /\ isRecording'
          /\ pending' = pending]_vars
  /\ [][Len(pending') < Len(pending) =>
          /\ isRecording' = isRecording
          /\ status' = "done"
          /\ \E jitter \in Jitters :
               results' = mockPredictEmotion(Head(pending).name, jitter)]_vars

\* a call made before the current recording began has resolved during it
C3Witness ==
  /\ isRecording
  /\ settled.outcome = "resolved"
  /\ settled.epoch < mediaRecorderRef
  /\ status = "done"
  /\ results # <<>>

\* C4 as stated: there are never two pending mockPredictEmotion calls.
AtMostOneInFlight == Len(pending) <= 1

\* C4 as amended: calls are not serialised, several can be in flight; each
\* accepted clip (each playback URL created) has at most one call in flight,
\* and the calls in flight are in the order their clips were accepted.
OneCallPerClip ==
  /\ \A i \in 1..Len(pending) : pending[i].clip \in 1..Len(urls)
  /\ \A i, j \in 1..Len(pending) : i < j => pending[i].clip < pending[j].clip

C4Witness == Len(pending) >= 2

\* C5: when isRecording is false and no startRecording call is pending, no
\* stream getUserMedia gave still has live tracks.
StreamsReleased ==
  (~isRecording /\ micPending = 0) =>
    \A s \in 1..Len(streams) : streams[s] = "stopped"

\* C6: the only object URL not revoked is the one held in audioUrl, and after
\* teardown none is.
UrlsRevoked ==
  \A u \in 1..Len(urls) : urls[u] = "live" => (mounted /\ u = audioUrl)

RECURSIVE SumConfidence(_)
SumConfidence(items) ==
  IF items = <<>> THEN 0 ELSE Head(items).confidence + SumConfidence(Tail(items))

\* C7: for four raw scores, all > 0, every confidence is the integer nearest
\* to 100 * score / total (halves up), lies in 0..100, and the four sum to a
\* value in 97..103.
ConfidencesInRange ==
  (normOut # <<>> /\ \A i \in 1..4 : rawIn[i].score > 0) =>
    LET total == rawIn[1].score + rawIn[2].score + rawIn[3].score + rawIn[4].score
    IN /\ Len(normOut) = 4
       /\ \A i \in 1..4 :
            /\ normOut[i].confidence \in 0..100
            /\ 2 * total * normOut[i].confidence <= 200 * rawIn[i].score + total
            /\ 200 * rawIn[i].score + total < 2 * total * (normOut[i].confidence + 1)
       /\ SumConfidence(normOut) \in 97..103

\* positive scores whose confidences drift from 100
C7Witness ==
  /\ normOut # <<>>
  /\ \A i \in 1..4 : rawIn[i].score > 0
  /\ SumConfidence(normOut) = 102

LabelIndex(label) == CHOOSE i \in 1..4 : Labels[i] = label

\* C8: the ranked list holds the normalised entry of every input label once,
\* in non-increasing order of confidence, equal confidences in input order.
RankedDescendingStable ==
  rankedOut # <<>> =>
    /\ Len(rankedOut) = 4
    /\ \A i \in 1..4 : \E k \in 1..4 : rankedOut[k] = normOut[i]
    /\ \A i, j \in 1..4 : i < j =>
         /\ rankedOut[i].label # rankedOut[j].label
         /\ rankedOut[i].confidence >= rankedOut[j].confidence
         /\ rankedOut[i].confidence = rankedOut[j].confidence =>
              LabelIndex(rankedOut[i].label) < LabelIndex(rankedOut[j].label)

\* the sort moved an entry and left a tie in input order
C8Witness ==
  /\ rankedOut # <<>>
  /\ rankedOut # normOut
  /\ \E i \in 1..3 : rankedOut[i].confidence = rankedOut[i + 1].confidence

BaseOf(label) == (CHOOSE i \in 1..4 : baseOut[i].label = label)

\* C9 as stated: 'clip5.wav' (seed 9) gives Calm 0.42, Stressed 0.32,
\* Excited 0.31, Neutral 0.15.
Clip5BaseAsStated ==
  (baseOut # <<>> /\ clipIn = "clip5.wav") =>
    /\ baseOut[BaseOf("Calm")].score = 420
    /\ baseOut[BaseOf("Stressed")].score = 320
    /\ baseOut[BaseOf("Excited")].score = 310
    /\ baseOut[BaseOf("Neutral")].score = 150

\* C9 as amended: every clip name of length 9, 'clip5.wav' among them, gives
\* Calm 0.32, Stressed 0.32, Excited 0.31, Neutral 0.15.
Seed9Base ==
  (baseOut # <<>> /\ Len(clipIn) = 9) =>
    /\ Len(baseOut) = 4
    /\ baseOut[BaseOf("Calm")].score = 320
    /\ baseOut[BaseOf("Stressed")].score = 320
    /\ baseOut[BaseOf("Excited")].score = 310
    /\ baseOut[BaseOf("Neutral")].score = 150

C9Witness == baseOut # <<>> /\ clipIn = "clip5.wav"

\* C10: results is empty or what one call resolved with: one entry for each
\* of the four labels; and status 'done' comes with results.
ResultsOfOneInvocation ==
  /\ \/ results = <<>>
     \/ /\ Len(results) = 4
        /\ \A i \in 1..4 : \E k \in 1..4 : results[k].label = Labels[i]
        /\ \E name \in {f.name : f \in AudioFiles \cup {MicrophoneFile}} :
             \E jitter \in Jitters : results = mockPredictEmotion(name, jitter)
  /\ status = "done" => results # <<>>

\* a second call has replaced the results of the first
C10Witness ==
  /\ status = "done"
  /\ results # <<>>
  /\ settled.clip >= 2

====
